---- MODULE Spec2Model ----
(***************************************************************************)
(* A model of backend/server.js: the three Mongoose collections (Player,   *)
(* Team, Game), the RapidAPI client fetchFromRapidAPI, the three admin     *)
(* populate routes and the read routes.  A request handler is split at its *)
(* awaits: every action is the code that runs between two awaits.          *)
(***************************************************************************)
EXTENDS Integers, Sequences, FiniteSets, TLC

VARIABLES Team, Player, Game, batches, req, left, faults, hist, resp

vars == <<Team, Player, Game, batches, req, left, faults, hist, resp>>

\* ------------------------------------------------------------------ bounds

\* refresh invocations in one behaviour of Spec
MaxRuns == 1
\* refresh invocations in one behaviour of SpecTwice and of SpecPlayers
MaxRepeats == 2
\* teams a division endpoint lists at most
MaxK == 1
\* writes the store fails in one behaviour
MaxFaults == 1

\* an absent string field (undefined)
None == "undefined"
\* an absent structured value (undefined), and a present one
NoValue == <<>>
Some(x) == <<x>>

\* request slots; the sequential specification uses the single slot of SeqSlots
Slots == {1, 2}
SeqSlots == {1}

\* ------------------------------------------------------------- sequences

Range(s) == {s[j] : j \in DOMAIN s}

RECURSIVE SelectSeqBy(_, _, _)
\* s.filter(x => x[f] === v)
SelectSeqBy(s, f, v) ==
  IF s = <<>> THEN <<>>
  ELSE IF Head(s)[f] = v THEN <<Head(s)>> \o SelectSeqBy(Tail(s), f, v)
       ELSE SelectSeqBy(Tail(s), f, v)

\* ---------------------------------------------------------------- upstream

\* const divisions = [...]
Divisions ==
  << [name |-> "Atlantic",  endpoint |-> "/nba-atlantic-team-list",  conference |-> "East"],
     [name |-> "Central",   endpoint |-> "/nba-central-team-list",   conference |-> "East"],
     [name |-> "Southeast", endpoint |-> "/nba-southeast-team-list", conference |-> "East"],
     [name |-> "Northwest", endpoint |-> "/nba-northwest-team-list", conference |-> "West"],
     [name |-> "Pacific",   endpoint |-> "/nba-pacific-team-list",   conference |-> "West"],
     [name |-> "Southwest", endpoint |-> "/nba-southwest-team-list", conference |-> "West"] >>

NDivisions == Len(Divisions)

\* what rapidApiAxios.get can do: reject (transport failure, non-2xx) with a
\* message, or resolve with a body that is absent or carries status/response
TransportErrors == {"Request failed with status code 404"}

RawThrow(m) == [kind |-> "throw", message |-> m]
RawBody(s, p) == [kind |-> "body", status |-> s, response |-> p]
RawNoBody == [kind |-> "nobody"]

\* the answers the provider can give, P the payloads it can carry
RawResponses(P) ==
  {RawThrow(m) : m \in TransportErrors}
    \cup {RawNoBody, RawBody("error", NoValue), RawBody("success", NoValue)}
    \cup {RawBody("success", Some(p)) : p \in P}

\* fetchFromRapidAPI without the check of the status discriminator
FetchUnchecked(raw) ==
  IF raw.kind = "throw" THEN [ok |-> FALSE, message |-> raw.message]
  ELSE IF raw.kind = "body"
    THEN [ok |-> TRUE, data |-> raw.response]
    ELSE [ok |-> FALSE, message |-> "Invalid API response"]

\* async function fetchFromRapidAPI(endpoint): response.data.response, or the
\* error it rethrows
FetchFromRapidAPI(raw) ==
  IF raw.kind = "throw" THEN [ok |-> FALSE, message |-> raw.message]
  ELSE IF raw.kind = "body" /\ raw.status = "success"
    THEN [ok |-> TRUE, data |-> raw.response]
    ELSE [ok |-> FALSE, message |-> "Invalid API response"]

\* reading a property of undefined (data.teamList with data undefined)
TypeErrorMessage == "Cannot read properties of undefined"

\* the teams a division endpoint can list: team j of division d
UpTeam(d, j) == [id |-> <<d, j>>, name |-> <<"team", d, j>>]
\* the lists a division endpoint can answer with while the provider lists k
\* teams a division
TeamLists(d, k) == {<<>>, [j \in 1..k |-> UpTeam(d, j)]}
TeamPayloads(d, k) ==
  {[teamList |-> NoValue]} \cup {[teamList |-> Some(l)] : l \in TeamLists(d, k)}

\* the players the provider can list; it may or may not carry statistics
UpPlayerA ==
  [id |-> "p1", name |-> "LeBron James", displayName |-> "LeBron",
   team |-> Some([id |-> "t13", name |-> "Lakers"]),
   points |-> 30, assists |-> 8, rebounds |-> 7]
UpPlayerB ==
  [id |-> "p2", name |-> None, displayName |-> "Rookie",
   team |-> NoValue, points |-> 0, assists |-> 0, rebounds |-> 0]
PlayerLists == {<<>>, <<UpPlayerA, UpPlayerB>>}
PlayerPayloads ==
  {[playerList |-> NoValue]} \cup {[playerList |-> Some(l)] : l \in PlayerLists}

\* the games the provider can list
UpGameA ==
  [id |-> "g1", date |-> "2024-01-15T19:00Z", dateFormatted |-> "2024-01-15",
   status |-> "Final",
   homeTeam |-> Some([id |-> "t13", name |-> "Lakers", score |-> Some(101)]),
   awayTeam |-> Some([id |-> "t2", name |-> "Celtics", score |-> Some(99)])]
UpGameB ==
  [id |-> "g2", date |-> "2024-01-16T19:00Z", dateFormatted |-> "2024-01-16",
   status |-> "Scheduled",
   homeTeam |-> Some([id |-> "t2", name |-> "Celtics", score |-> NoValue]),
   awayTeam |-> NoValue]
UpGameTBD ==
  [id |-> "g3", date |-> "TBD", dateFormatted |-> "TBD", status |-> "Scheduled",
   homeTeam |-> NoValue, awayTeam |-> NoValue]
GameLists == {<<>>, <<UpGameA, UpGameB>>, <<UpGameTBD>>}
GamePayloads ==
  {[gameList |-> NoValue]} \cup {[gameList |-> Some(l)] : l \in GameLists}

\* ----------------------------------------------------------- normalisation

\* allTeams.push(...data.teamList.map(team => ({...team, divisionName, conferenceName})))
TeamsWithDivision(teamList, division) ==
  [j \in DOMAIN teamList |->
     [id |-> teamList[j].id, name |-> teamList[j].name,
      divisionName |-> division.name, conferenceName |-> division.conference]]

\* teamsToInsert without the tags of the division loop
TeamsToInsertUntagged(allTeams) ==
  [j \in DOMAIN allTeams |->
     [apiTeamId |-> allTeams[j].id, name |-> allTeams[j].name,
      conference |-> None, division |-> None, wins |-> 0, losses |-> 0]]

\* const teamsToInsert = allTeams.map(team => ({...}))
TeamsToInsert(allTeams) ==
  [j \in DOMAIN allTeams |->
     [apiTeamId |-> allTeams[j].id, name |-> allTeams[j].name,
      conference |-> allTeams[j].conferenceName,
      division |-> allTeams[j].divisionName, wins |-> 0, losses |-> 0]]

\* a || b on strings: undefined and the empty string are falsy
OrElse(a, b) == IF a \in {None, ""} THEN b ELSE a

\* playersToInsert keeping the statistics the provider sent
PlayersToInsertKeepingStats(playerList) ==
  [j \in DOMAIN playerList |->
     LET player == playerList[j] IN
     [apiPlayerId |-> player.id,
      name |-> OrElse(player.name, player.displayName),
      displayName |-> player.displayName,
      team |-> OrElse(IF player.team = NoValue THEN None ELSE player.team[1].name,
                      "Free Agent"),
      teamId |-> IF player.team = NoValue THEN None ELSE player.team[1].id,
      points |-> player.points, assists |-> player.assists,
      rebounds |-> player.rebounds]]

\* const playersToInsert = data.playerList.map(player => ({...}))
PlayersToInsert(playerList) ==
  [j \in DOMAIN playerList |->
     LET player == playerList[j] IN
     [apiPlayerId |-> player.id,
      name |-> OrElse(player.name, player.displayName),
      displayName |-> player.displayName,
      team |-> OrElse(IF player.team = NoValue THEN None ELSE player.team[1].name,
                      "Free Agent"),
      teamId |-> IF player.team = NoValue THEN None ELSE player.team[1].id,
      points |-> 0, assists |-> 0, rebounds |-> 0]]

\* the date strings Date can parse
ParseableDates == {"2024-01-15T19:00Z", "2024-01-16T19:00Z"}

\* new Date(s): a date, or the Invalid Date
NewDate(s) == IF s \in ParseableDates THEN <<"Date", s>> ELSE <<"Invalid Date">>

\* homeTeam: {id: t?.id, name: t?.name, ..., score: t?.score || 0}
TeamSnapshot(t) ==
  IF t = NoValue THEN [id |-> None, name |-> None, score |-> 0]
  ELSE [id |-> t[1].id, name |-> t[1].name,
        score |-> IF t[1].score = NoValue THEN 0 ELSE t[1].score[1]]

\* const gamesToInsert = data.gameList.map(game => ({...}))
GamesToInsert(gameList) ==
  [j \in DOMAIN gameList |->
     LET game == gameList[j] IN
     [apiGameId |-> game.id, date |-> NewDate(game.date),
      dateFormatted |-> game.dateFormatted, status |-> game.status,
      homeTeam |-> TeamSnapshot(game.homeTeam),
      awayTeam |-> TeamSnapshot(game.awayTeam)]]

\* -------------------------------------------------------------------- store

\* the collection of a kind of record
Coll(k) == CASE k = "teams" -> Team [] k = "players" -> Player [] k = "games" -> Game

\* a write that empties the other two collections when it empties its own
SetCollAndOthers(k, c) ==
  /\ Team' = IF k = "teams" THEN c ELSE IF c = <<>> THEN <<>> ELSE Team
  /\ Player' = IF k = "players" THEN c ELSE IF c = <<>> THEN <<>> ELSE Player
  /\ Game' = IF k = "games" THEN c ELSE IF c = <<>> THEN <<>> ELSE Game

\* the collection of kind k becomes c; the other two are left alone
SetColl(k, c) ==
  /\ Team' = IF k = "teams" THEN c ELSE Team
  /\ Player' = IF k = "players" THEN c ELSE Player
  /\ Game' = IF k = "games" THEN c ELSE Game

\* deleteMany that removes nothing
DeleteNone(c) == c

\* Model.deleteMany({}): every document is removed
DeleteMany(c) == <<>>

\* the documents as stored: each gets a fresh _id (batch b, position j)
Stored(docs, b) ==
  [j \in DOMAIN docs |->
     [f \in DOMAIN docs[j] \cup {"_id"} |->
        IF f = "_id" THEN <<b, j>> ELSE docs[j][f]]]

\* insertMany that replaces what the collection holds
InsertReplacing(c, docs, b) == Stored(docs, b)

\* Model.insertMany(docs): the documents are appended to the collection
InsertMany(c, docs, b) == c \o Stored(docs, b)

\* insertMany casts each document to the schema first: a Date field holding the
\* Invalid Date fails the cast and no document is written
CastsToSchema(docs) ==
  \A j \in DOMAIN docs :
    "date" \in DOMAIN docs[j] => docs[j].date # <<"Invalid Date">>

\* the record fields of a collection, without the store's _id
Normalized(c) ==
  [j \in DOMAIN c |-> [f \in DOMAIN c[j] \ {"_id"} |-> c[j][f]]]

\* records found in the store before the first refresh
OldTeam ==
  [_id |-> <<0, 1>>, apiTeamId |-> <<"Legacy", 1>>, name |-> <<"team", "Legacy", 1>>,
   conference |-> "East", division |-> "Atlantic", wins |-> 41, losses |-> 41]
OldPlayer ==
  [_id |-> <<0, 1>>, apiPlayerId |-> "p0", name |-> "Old Timer",
   displayName |-> "Old Timer", team |-> "Free Agent", teamId |-> None,
   points |-> 25, assists |-> 5, rebounds |-> 5]
OldGame ==
  [_id |-> <<0, 1>>, apiGameId |-> "g0", date |-> <<"Date", "2024-01-15T19:00Z">>,
   dateFormatted |-> "2024-01-15", status |-> "Final",
   homeTeam |-> [id |-> "t1", name |-> "Hawks", score |-> 90],
   awayTeam |-> [id |-> "t2", name |-> "Celtics", score |-> 95]]

\* ---------------------------------------------------------------- requests

\* res.status(s).json(body)
Json(s, body) == [status |-> s, body |-> body]
NoJson == Json(0, <<>>)

\* what the last step sent to a client: the route, its parameter, the answer
Sent(route, param, json) ==
  [route |-> route, param |-> param, status |-> json.status, body |-> json.body]
NoResponse == Sent("none", <<>>, NoJson)

PopulateRoute(k) ==
  CASE k = "teams" -> "POST /api/admin/populate-teams"
    [] k = "players" -> "POST /api/admin/populate-players"
    [] k = "games" -> "POST /api/admin/populate-games"

\* a slot with no request
IdleReq ==
  [pc |-> "idle", kind |-> "none", i |-> 0, k |-> 0, allTeams |-> <<>>,
   list |-> <<>>, docs |-> <<>>, calls |-> <<>>, snap |-> <<>>, wrote |-> <<>>,
   threw |-> FALSE, overlap |-> FALSE, waited |-> FALSE, found |-> <<>>,
   res |-> NoJson]

InFlight(s) == req[s].pc \notin {"idle", "done"}

\* an admin POST of kind k arrives and is the request of slot r, the collection
\* holding c afterwards; n is the number of teams the provider lists a division
\* during it
StartWith(r, k, n, c) ==
  /\ ~InFlight(r)
  /\ left > 0
  /\ left' = left - 1
  /\ LET busy == {s \in Slots \ {r} : InFlight(s) /\ req[s].kind = k} IN
     req' = [s \in Slots |->
               IF s = r
                 THEN [IdleReq EXCEPT !.pc = "fetch", !.kind = k, !.i = 1, !.k = n,
                                      !.snap = Coll(k), !.overlap = busy # {}]
               ELSE IF s \in busy THEN [req[s] EXCEPT !.overlap = TRUE]
               ELSE req[s]]
  /\ resp' = NoResponse
  /\ SetColl(k, c)
  /\ UNCHANGED <<batches, faults, hist>>

\* a route that empties its collection before it fetches
StartCleared(r, k, n) == StartWith(r, k, n, <<>>)

\* the route's first lines touch no collection
Start(r, k, n) == StartWith(r, k, n, Coll(k))

\* the last two finished refreshes of each kind: the endpoints each called and
\* what they answered, what its collection held when it answered, whether the
\* store threw or another refresh of the kind overlapped it
Remember(q, after) ==
  LET e == [calls |-> q.calls, after |-> Normalized(after),
            clean |-> ~q.threw /\ ~q.overlap]
      h == hist[q.kind] \o <<e>>
  IN [hist EXCEPT ![q.kind] = IF Len(h) > 2 THEN Tail(h) ELSE h]

\* the request of slot r, now q, answers with res; its collection holds `after`
Respond(r, q, res, after) ==
  /\ req' = [req EXCEPT ![r] = [q EXCEPT !.pc = "done", !.res = res]]
  /\ hist' = Remember(q, after)
  /\ resp' = Sent(PopulateRoute(q.kind), <<>>, res)

\* the request of slot r goes on as q
Continue(r, q) ==
  /\ req' = [req EXCEPT ![r] = q]
  /\ hist' = hist
  /\ resp' = NoResponse

\* a catch that leaves the error out of its answer
RouteErrorBare(m, e) == Json(500, [success |-> FALSE, message |-> m])

\* the catch of a route: res.status(500).json({success: false, message, error})
RouteError(m, e) == Json(500, [success |-> FALSE, message |-> m, error |-> e])

ErrorPopulating(k) ==
  CASE k = "teams" -> "Error populating teams"
    [] k = "players" -> "Error populating players"
    [] k = "games" -> "Error populating games"

\* ------------------------------------------------------------ populate-teams

TeamsNotFound ==
  Json(404, [success |-> FALSE, message |-> "No teams found in API response"])

\* after the loop over the divisions, whose pacing is over with it:
\* if (allTeams.length === 0) return 404 else await Team.deleteMany({})
AfterDivisions(r, q) ==
  LET p == [q EXCEPT !.waited = FALSE] IN
  IF Len(p.allTeams) = 0
    THEN Respond(r, p, TeamsNotFound, Team)
    ELSE Continue(r, [p EXCEPT !.pc = "clear"])

\* the for loop goes to its next division, or ends
NextDivision(r, q) ==
  IF q.i < NDivisions
    THEN Continue(r, [q EXCEPT !.pc = "fetch", !.i = q.i + 1])
    ELSE AfterDivisions(r, q)

\* the teams an answer of a division endpoint lists (none when it is no
\* success envelope or carries no list)
Listed(raw) ==
  IF raw.kind = "body" /\ raw.status = "success" /\ raw.response # NoValue
     /\ raw.response[1].teamList # NoValue
    THEN raw.response[1].teamList[1] ELSE <<>>

\* one turn of the loop: await fetchFromRapidAPI(division.endpoint); a list
\* that is there and not empty is tagged and pushed, then the 500ms timer is
\* awaited; anything thrown is caught and the loop goes on
FetchDivision(r) ==
  /\ req[r].pc = "fetch" /\ req[r].kind = "teams"
  /\ LET division == Divisions[req[r].i] IN
     \E raw \in RawResponses(TeamPayloads(division.name, req[r].k)) :
       LET f == FetchFromRapidAPI(raw)
           q == [req[r] EXCEPT !.waited = FALSE, !.calls =
                   Append(@, [endpoint |-> division.endpoint, teams |-> Listed(raw)])]
       IN IF f.ok /\ f.data # NoValue
            THEN LET teamList == IF f.data[1].teamList = NoValue THEN <<>>
                                 ELSE f.data[1].teamList[1]
                 IN Continue(r, [q EXCEPT !.pc = "delay",
                      !.allTeams = @ \o TeamsWithDivision(teamList, division)])
            ELSE NextDivision(r, q)
  /\ UNCHANGED <<Team, Player, Game, batches, left, faults>>

\* await new Promise(resolve => setTimeout(resolve, 500)) resolves: the 500ms
\* have elapsed since the call of the division
Delay(r) ==
  /\ req[r].pc = "delay"
  /\ NextDivision(r, [req[r] EXCEPT !.waited = TRUE])
  /\ UNCHANGED <<Team, Player, Game, batches, left, faults>>

\* ---------------------------------------------------------- populate-players

PlayerEndpoints == <<"/players", "/nba/players">>

PlayersEndpointNotFound(e) ==
  Json(404, [success |-> FALSE,
             message |-> "Players endpoint not found. Check API documentation.",
             error |-> e])

PlayersNotFound ==
  Json(404, [success |-> FALSE, message |-> "No players found in API response"])

\* data = await fetchFromRapidAPI('/players'), in its catch '/nba/players', in
\* that one's catch the 404; then the check of data.playerList
FetchPlayers(r) ==
  /\ req[r].pc = "fetch" /\ req[r].kind = "players"
  /\ \E raw \in RawResponses(PlayerPayloads) :
       LET f == FetchFromRapidAPI(raw)
           q == [req[r] EXCEPT !.calls =
                   Append(@, [endpoint |-> PlayerEndpoints[req[r].i], raw |-> raw])]
       IN IF ~f.ok
            THEN IF q.i < Len(PlayerEndpoints)
                   THEN Continue(r, [q EXCEPT !.i = q.i + 1])
                   ELSE Respond(r, q,
                                PlayersEndpointNotFound(f.message), Player)
          ELSE IF f.data = NoValue
            THEN Respond(r, q,
                         RouteError(ErrorPopulating("players"), TypeErrorMessage),
                         Player)
          ELSE IF f.data[1].playerList = NoValue \/ Len(f.data[1].playerList[1]) = 0
            THEN Respond(r, q, PlayersNotFound, Player)
          ELSE Continue(r, [q EXCEPT !.pc = "clear",
                                     !.list = f.data[1].playerList[1]])
  /\ UNCHANGED <<Team, Player, Game, batches, left, faults>>

\* ------------------------------------------------------------ populate-games

\* the instants new Date() can return
Instants ==
  {[date |-> "2024-01-15", time |-> "23:59:59.000Z"],
   [date |-> "2024-01-16", time |-> "00:00:01.000Z"]}

\* now.toISOString(), in its parts
ToISOString(now) == <<now.date, "T", now.time>>

\* iso.split('T')[0]
SplitT0(iso) == iso[1]

\* the chain with its first two endpoints swapped
GameEndpointsSwapped(now) ==
  <<"/schedule", "/games", "/games?date=" \o SplitT0(ToISOString(now))>>

\* the three endpoints the route tries, the last with today's date
GameEndpoints(now) ==
  <<"/games", "/schedule", "/games?date=" \o SplitT0(ToISOString(now))>>

GamesEndpointNotFound(e) ==
  Json(404, [success |-> FALSE,
             message |-> "Games endpoint not found. Check API documentation.",
             error |-> e])

NoGamesFound == Json(200, [success |-> TRUE, message |-> "No games found", count |-> 0])

\* data = await fetchFromRapidAPI('/games'), in its catch '/schedule', in that
\* one's catch `/games?date=${today}`, in that one's catch the 404; then the
\* check of data.gameList
FetchGames(r) ==
  /\ req[r].pc = "fetch" /\ req[r].kind = "games"
  /\ \E raw \in RawResponses(GamePayloads), now \in Instants :
       LET f == FetchFromRapidAPI(raw)
           q == [req[r] EXCEPT !.calls =
                   Append(@, [endpoint |-> GameEndpoints(now)[req[r].i], raw |-> raw])]
       IN IF ~f.ok
            THEN IF q.i < Len(GameEndpoints(now))
                   THEN Continue(r, [q EXCEPT !.i = q.i + 1])
                   ELSE Respond(r, q,
                                GamesEndpointNotFound(f.message), Game)
          ELSE IF f.data = NoValue
            THEN Respond(r, q,
                         RouteError(ErrorPopulating("games"), TypeErrorMessage), Game)
          ELSE IF f.data[1].gameList = NoValue \/ Len(f.data[1].gameList[1]) = 0
            THEN Respond(r, q, NoGamesFound, Game)
          ELSE Continue(r, [q EXCEPT !.pc = "clear",
                                     !.list = f.data[1].gameList[1]])
  /\ UNCHANGED <<Team, Player, Game, batches, left, faults>>

\* ------------------------------------------------------- clear, then insert

\* the documents the route maps from what it fetched
ToInsert(q) ==
  CASE q.kind = "teams" -> TeamsToInsert(q.allTeams)
    [] q.kind = "players" -> PlayersToInsert(q.list)
    [] q.kind = "games" -> GamesToInsert(q.list)

\* breakdown: {Atlantic: allTeams.filter(t => t.divisionName === 'Atlantic').length, ...}
Breakdown(allTeams) ==
  [d \in {Divisions[j].name : j \in DOMAIN Divisions} |->
     Len(SelectSeqBy(allTeams, "divisionName", d))]

\* res.json({success: true, message, count[, breakdown]})
Populated(q) ==
  LET n == Len(q.docs) IN
  IF q.kind = "teams"
    THEN Json(200, [success |-> TRUE,
           message |-> <<"Successfully populated", n, "teams from all 6 divisions">>,
           count |-> n, breakdown |-> Breakdown(q.allTeams)])
    ELSE Json(200, [success |-> TRUE,
           message |-> <<"Successfully populated", n, q.kind>>, count |-> n])

\* await Model.deleteMany({}) is executed by the store: the collection is
\* emptied and the route maps the documents and awaits insertMany; or the store
\* throws, having removed nothing or everything, and the route's catch answers
Clear(r) ==
  /\ req[r].pc = "clear"
  /\ LET k == req[r].kind
         q == [req[r] EXCEPT !.wrote = Append(@, "deleteMany")]
     IN \/ /\ SetColl(k, DeleteMany(Coll(k)))
           /\ Continue(r, [q EXCEPT !.pc = "insert", !.docs = ToInsert(q)])
           /\ faults' = faults
        \/ /\ faults > 0
           /\ faults' = faults - 1
           /\ \E c \in {Coll(k), <<>>} :
                /\ SetColl(k, c)
                /\ Respond(r, [q EXCEPT !.threw = TRUE],
                           RouteError(ErrorPopulating(k), "StoreError"), c)
  /\ UNCHANGED <<batches, left>>

\* await Model.insertMany(docs) is executed by the store: a document that does
\* not cast to the schema makes it throw with nothing written; otherwise the
\* documents are written and the route answers, or the store throws after
\* writing some first documents and the route's catch answers
Insert(r) ==
  /\ req[r].pc = "insert"
  /\ LET k == req[r].kind
         q == [req[r] EXCEPT !.wrote = Append(@, "insertMany"), !.found = Coll(k)]
     IN IF ~CastsToSchema(q.docs)
          THEN /\ Respond(r, q, RouteError(ErrorPopulating(k), "ValidationError"),
                          Coll(k))
               /\ UNCHANGED <<Team, Player, Game, batches, faults>>
          ELSE \/ LET c == InsertMany(Coll(k), q.docs, batches) IN
                  /\ SetColl(k, c)
                  /\ batches' = batches + 1
                  /\ faults' = faults
                  /\ Respond(r, q, Populated(q), c)
               \/ \E n \in 0..(Len(q.docs) - 1) :
                    LET c == InsertMany(Coll(k), SubSeq(q.docs, 1, n), batches) IN
                    /\ faults > 0
                    /\ faults' = faults - 1
                    /\ SetColl(k, c)
                    /\ batches' = batches + 1
                    /\ Respond(r, [q EXCEPT !.threw = TRUE],
                               RouteError(ErrorPopulating(k), "StoreError"), c)
  /\ UNCHANGED left

\* --------------------------------------------------------------- read routes

\* the largest answer of the top, latest, search and random routes
ListLimit == 10

Min(a, b) == IF a < b THEN a ELSE b

\* query.limit(n)
Limit(c, n) == SubSeq(c, 1, Min(n, Len(c)))

\* the order of the strings the model uses as player names
PlayerNameRank(n) ==
  CASE n = "LeBron James" -> 1 [] n = "Old Timer" -> 2 [] n = "Rookie" -> 3
    [] OTHER -> 4

\* the order of the division names, and with it of the team names
DivisionNameRank(d) ==
  CASE d = "Atlantic" -> 1 [] d = "Central" -> 2 [] d = "Legacy" -> 3
    [] d = "Northwest" -> 4 [] d = "Pacific" -> 5 [] d = "Southeast" -> 6
    [] d = "Southwest" -> 7
TeamNameLess(a, b) ==
  \/ DivisionNameRank(a[2]) < DivisionNameRank(b[2])
  \/ a[2] = b[2] /\ a[3] < b[3]

\* the order of the dates the model uses
DateRank(d) == IF d[2] = "2024-01-15T19:00Z" THEN 1 ELSE 2

\* a store query may throw (the connection is down)
StoreOutcomes == {"ok", "StoreError"}

\* the answer of a route whose query found the documents `found`
Listing(found) == Json(200, [success |-> TRUE, count |-> Len(found), data |-> found])

\* a read route sends its answer and changes nothing
Read(route, param, json) ==
  /\ resp' = Sent(route, param, json)
  /\ UNCHANGED <<Team, Player, Game, batches, req, left, faults, hist>>

\* a list route: the query's documents, or the catch of the route
ListRoute(route, param, found, message) ==
  \E o \in StoreOutcomes :
    Read(route, param, IF o = "ok" THEN Listing(found) ELSE RouteError(message, o))

\* Player.find().sort({ name: 1 })
PlayersByName ==
  SortSeq(Player, LAMBDA a, b : PlayerNameRank(a.name) < PlayerNameRank(b.name))

\* app.get('/api/players')
GetPlayers == ListRoute("GET /api/players", <<>>, PlayersByName, "Error fetching players")

\* the ids a client asks for: ObjectIds (batch, position) and a string that is
\* no ObjectId
IdParams == {<<0, 1>>, <<1, 1>>, <<1, 2>>, <<9, 9>>, <<"not-an-objectid">>}
IsObjectId(id) == Len(id) = 2

\* Model.findById(id): the id is cast to an ObjectId, which throws a CastError
\* for a string that is none; then the document with that _id, or null
FindById(c, id) ==
  IF ~IsObjectId(id) THEN [threw |-> TRUE, error |-> "CastError"]
  ELSE LET m == SelectSeq(c, LAMBDA d : d._id = id) IN
       [threw |-> FALSE, doc |-> IF m = <<>> THEN NoValue ELSE Some(m[1])]

\* the get-by-id routes: 404 without the document, the document, or the catch
ByIdRoute(route, c, notFound, message) ==
  \E id \in IdParams, o \in StoreOutcomes :
    LET found == FindById(c, id) IN
    Read(route, id,
         IF o # "ok" THEN RouteError(message, o)
         ELSE IF found.threw THEN RouteError(message, found.error)
         ELSE IF found.doc = NoValue
           THEN Json(404, [success |-> FALSE, message |-> notFound])
         ELSE Json(200, [success |-> TRUE, data |-> found.doc[1]]))

\* app.get('/api/players/:id')
GetPlayerById ==
  ByIdRoute("GET /api/players/:id", Player, "Player not found", "Error fetching player")

\* the names a client searches for, and $regex with $options 'i' on the
\* strings of the model: does the string contain the pattern, whatever the case
SearchNames == {"bron", "old"}
RegexI(pattern, str) ==
  <<pattern, str>> \in
    {<<"bron", "LeBron James">>, <<"bron", "LeBron">>,
     <<"old", "Old Timer">>}

\* app.get('/api/players/search/:name')
SearchPlayers ==
  \E name \in SearchNames :
    ListRoute("GET /api/players/search/:name", <<name>>,
      Limit(SelectSeq(Player,
              LAMBDA d : RegexI(name, d.name) \/ RegexI(name, d.displayName)),
            ListLimit),
      "Error searching players")

\* app.get('/api/players/top/10')
GetTopPlayers ==
  ListRoute("GET /api/players/top/10", <<>>,
    Limit(SortSeq(Player, LAMBDA a, b : a.points > b.points), ListLimit),
    "Error fetching top players")

\* Team.find().sort({ name: 1 })
TeamsByName == SortSeq(Team, LAMBDA a, b : TeamNameLess(a.name, b.name))

\* app.get('/api/teams')
GetTeams == ListRoute("GET /api/teams", <<>>, TeamsByName, "Error fetching teams")

\* app.get('/api/teams/:id')
GetTeamById ==
  ByIdRoute("GET /api/teams/:id", Team, "Team not found", "Error fetching team")

\* the documents { $sample: { size: n } } can pick, in the collection's order
Samples(c, n) ==
  {SelectSeq(c, LAMBDA d : d \in picked) :
     picked \in {P \in SUBSET Range(c) : Cardinality(P) = Min(n, Len(c))}}

\* app.get('/api/teams/random/10')
GetRandomTeams ==
  \E found \in Samples(Team, ListLimit) :
    ListRoute("GET /api/teams/random/10", <<>>, found, "Error fetching random teams")

\* Game.find().sort({ date: -1 })
GamesByDateDesc == SortSeq(Game, LAMBDA a, b : DateRank(a.date) > DateRank(b.date))

\* app.get('/api/games')
GetGames == ListRoute("GET /api/games", <<>>, GamesByDateDesc, "Error fetching games")

\* app.get('/api/games/latest')
GetLatestGames ==
  ListRoute("GET /api/games/latest", <<>>, Limit(GamesByDateDesc, ListLimit),
            "Error fetching latest games")

\* the dates a client asks for
DateParams == {"2024-01-15"}

\* app.get('/api/games/date/:date')
GetGamesByDate ==
  \E date \in DateParams :
    ListRoute("GET /api/games/date/:date", <<date>>,
      SortSeq(SelectSeq(Game, LAMBDA d : d.dateFormatted = date),
              LAMBDA a, b : DateRank(a.date) < DateRank(b.date)),
      "Error fetching games by date")

\* app.get('/api/admin/test-api/:endpoint'): the payload as it is, or the catch
TestApi ==
  \E raw \in RawResponses(PlayerPayloads) :
    LET f == FetchFromRapidAPI(raw) IN
    Read("GET /api/admin/test-api/:endpoint", <<"players">>,
         IF f.ok THEN Json(200, [success |-> TRUE, data |-> f.data])
         ELSE RouteError("Error testing API", f.message))

\* ------------------------------------------------------------ specification

Kinds == {"teams", "players", "games"}

NoHistory == [k \in Kinds |-> <<>>]

\* the server starts with no request, on a store that is empty or holds
\* earlier records; n refresh invocations are to come, and the store fails f of
\* their writes at most
InitWithFaults(n, f) ==
  /\ \E old \in BOOLEAN :
       /\ Team = IF old THEN <<OldTeam>> ELSE <<>>
       /\ Player = IF old THEN <<OldPlayer>> ELSE <<>>
       /\ Game = IF old THEN <<OldGame>> ELSE <<>>
  /\ batches = 1
  /\ req = [s \in Slots |-> IdleReq]
  /\ left = n
  /\ faults = f
  /\ hist = NoHistory
  /\ resp = NoResponse

InitWith(n) == InitWithFaults(n, MaxFaults)

Init == InitWith(MaxRuns)

\* a step of the refresh of slot r
Refresh(r) ==
  \/ \E k \in Kinds, n \in 1..MaxK : Start(r, k, n)
  \/ FetchDivision(r)
  \/ Delay(r)
  \/ FetchPlayers(r)
  \/ FetchGames(r)
  \/ Clear(r)
  \/ Insert(r)

\* a read request is served
Reads ==
  \/ GetPlayers
  \/ GetPlayerById
  \/ SearchPlayers
  \/ GetTopPlayers
  \/ GetTeams
  \/ GetTeamById
  \/ GetRandomTeams
  \/ GetGames
  \/ GetLatestGames
  \/ GetGamesByDate
  \/ TestApi

\* one administrator, who waits for the answer before the next refresh, and
\* any number of readers
Next == (\E r \in SeqSlots : Refresh(r)) \/ Reads

Spec == Init /\ [][Next]_vars

\* the administrator alone, refreshing MaxRepeats times in a row
NextAdmin == \E r \in SeqSlots : Refresh(r)

SpecTwice == InitWith(MaxRepeats) /\ [][NextAdmin]_vars

\* the store starts empty
InitEmpty ==
  /\ Team = <<>> /\ Player = <<>> /\ Game = <<>>
  /\ batches = 1
  /\ req = [s \in Slots |-> IdleReq]
  /\ left = MaxRepeats
  /\ faults = MaxFaults
  /\ hist = NoHistory
  /\ resp = NoResponse

\* administrators refreshing the players at the same time, and readers of the
\* players
NextPlayers ==
  \/ \E r \in Slots :
       \/ Start(r, "players", 1)
       \/ FetchPlayers(r)
       \/ Clear(r)
       \/ Insert(r)
  \/ GetPlayers
  \/ GetTopPlayers

SpecPlayers == InitEmpty /\ [][NextPlayers]_vars

\* administrators refreshing the teams at the same time, on a store that does
\* not fail; a request takes the first slot that was never used
NextTeams ==
  \E r \in Slots :
    \/ \E n \in 1..MaxK :
         /\ \A s \in Slots : s < r => req[s].pc # "idle"
         /\ Start(r, "teams", n)
    \/ FetchDivision(r)
    \/ Delay(r)
    \/ Clear(r)
    \/ Insert(r)

SpecTeams == InitWithFaults(MaxRepeats, 0) /\ [][NextTeams]_vars

\* ------------------------------------------------------------------- claims

\* the refresh of slot r, of kind k, has answered
Answered(r, k) == req[r].pc = "done" /\ req[r].kind = k

\* an answer of the provider that makes the call fail: the request is
\* rejected, or the envelope is absent or does not say success
Fails(raw) == raw.kind # "body" \/ raw.status # "success"

\* the text of the error a failing call throws
ErrorText(raw) == IF raw.kind = "throw" THEN raw.message ELSE "Invalid API response"

\* the last call of a request
LastCall(q) == q.calls[Len(q.calls)]

\* C1: when the primary endpoint '/players' fails the refresh of the players
\* calls the fallback '/nba/players', and when that fails too it answers with
\* the 404 endpoint-not-found envelope carrying the fallback's error text, has
\* issued no clear and no insert, and the Player collection holds what it held
\* before the operation.
C1_PlayersEndpointNotFound ==
  \A r \in Slots :
    (Answered(r, "players") /\ Fails(req[r].calls[1].raw)) =>
      LET q == req[r] IN
      /\ Len(q.calls) = 2
      /\ q.calls[1].endpoint = "/players"
      /\ q.calls[2].endpoint = "/nba/players"
      /\ Fails(q.calls[2].raw) =>
           /\ q.res = Json(404,
                [success |-> FALSE,
                 message |-> "Players endpoint not found. Check API documentation.",
                 error |-> ErrorText(q.calls[2].raw)])
           /\ q.wrote = <<>>
           /\ Player = q.snap

\* both endpoints failed, differently, over a collection that held a record
C1_Witness ==
  \E r \in Slots :
    /\ Answered(r, "players") /\ Len(req[r].calls) = 2
    /\ req[r].calls[1].raw.kind = "throw" /\ req[r].calls[2].raw.kind = "body"
    /\ Fails(req[r].calls[2].raw)
    /\ req[r].res.status = 404
    /\ Player = <<OldPlayer>>

\* the answer of a games endpoint carries no game, or no list of games
NoGameList(raw) ==
  \/ raw.response = NoValue
  \/ raw.response[1].gameList = NoValue
  \/ raw.response[1].gameList[1] = <<>>

\* C2: when an endpoint of the chain succeeds and the game list it returns is
\* empty or missing, the refresh of the games reports success with count 0 and
\* the Game collection is as it was: it is not cleared.
C2_NoGamesIsSuccess ==
  \A r \in Slots :
    (Answered(r, "games") /\ ~Fails(LastCall(req[r]).raw)
       /\ NoGameList(LastCall(req[r]).raw)) =>
      /\ req[r].res.status = 200
      /\ req[r].res.body.success = TRUE
      /\ req[r].res.body.count = 0
      /\ req[r].wrote = <<>>
      /\ Game = req[r].snap

\* the division an endpoint lists, and the conference of a division
EndpointDivision(e) ==
  CASE e = "/nba-atlantic-team-list" -> "Atlantic"
    [] e = "/nba-central-team-list" -> "Central"
    [] e = "/nba-southeast-team-list" -> "Southeast"
    [] e = "/nba-northwest-team-list" -> "Northwest"
    [] e = "/nba-pacific-team-list" -> "Pacific"
    [] e = "/nba-southwest-team-list" -> "Southwest"
DivisionConference(d) ==
  IF d \in {"Atlantic", "Central", "Southeast"} THEN "East" ELSE "West"

RECURSIVE ReturnedTeams(_)
\* the teams the calls returned, in the order of the calls, each a record of
\* its division and that division's conference with no win and no loss
ReturnedTeams(calls) ==
  IF calls = <<>> THEN <<>>
  ELSE LET c == calls[Len(calls)]
           d == EndpointDivision(c.endpoint)
       IN ReturnedTeams(SubSeq(calls, 1, Len(calls) - 1)) \o
          [j \in DOMAIN c.teams |->
             [apiTeamId |-> c.teams[j].id, name |-> c.teams[j].name,
              conference |-> DivisionConference(d), division |-> d,
              wins |-> 0, losses |-> 0]]

RECURSIVE SumOf(_)
\* the sum of the values of a function
SumOf(f) ==
  IF DOMAIN f = {} THEN 0
  ELSE LET x == CHOOSE x \in DOMAIN f : TRUE
       IN f[x] + SumOf([y \in DOMAIN f \ {x} |-> f[y]])

\* C3: a refresh of the teams run alone, on a store that does not fail, in
\* which at least one division returns a team, calls the six divisions,
\* succeeds, and leaves in the Team collection exactly the teams the divisions
\* returned, each tagged with its division and that division's conference;
\* the count it reports is the size of the collection and the six counts of
\* its breakdown sum to it.
C3_TeamsOfAllDivisions ==
  \A r \in Slots :
    (Answered(r, "teams") /\ ~req[r].threw
       /\ \E j \in DOMAIN req[r].calls : req[r].calls[j].teams # <<>>) =>
      LET q == req[r] IN
      /\ Len(q.calls) = 6
      /\ q.res.status = 200 /\ q.res.body.success = TRUE
      /\ Normalized(Team) = ReturnedTeams(q.calls)
      /\ q.res.body.count = Len(Team)
      /\ Cardinality(DOMAIN q.res.body.breakdown) = 6
      /\ SumOf(q.res.body.breakdown) = Len(Team)

\* five divisions returned their teams and one returned none; the records
\* found before are gone
C3_Witness ==
  \E r \in Slots :
    /\ Answered(r, "teams") /\ ~req[r].threw
    /\ Cardinality({j \in DOMAIN req[r].calls : req[r].calls[j].teams = <<>>}) = 1
    /\ req[r].snap = <<OldTeam>>
    /\ Len(Team) = 5 * req[r].k
    /\ req[r].res.body.count = Len(Team)

\* the answer is the catch's, for an error of the clear or of the insert step
StoreStepError(res) ==
  res.status = 500 /\ res.body.error \in {"StoreError", "ValidationError"}

\* C4 as stated: whenever a refresh ends in failure, an error of the clear or
\* of the insert step included, its collection holds what it held before.
C4_AnyFailureLeavesCollection ==
  \A r \in Slots :
    (req[r].pc = "done" /\ ~req[r].res.body.success) =>
      Coll(req[r].kind) = req[r].snap

\* C4: whenever a refresh ends in a failure other than an error of its clear
\* or insert step (every endpoint failing, an empty or missing list, an answer
\* with no payload), it has issued no clear and no insert and its collection
\* holds what it held before.
C4_FailureBeforeClear ==
  \A r \in Slots :
    (req[r].pc = "done" /\ ~req[r].res.body.success
       /\ ~StoreStepError(req[r].res)) =>
      /\ req[r].wrote = <<>>
      /\ Coll(req[r].kind) = req[r].snap

\* the six divisions returned no team, over a collection that held a record
C4_Witness ==
  \E r \in Slots :
    /\ Answered(r, "teams") /\ Len(req[r].calls) = 6
    /\ req[r].res.status = 404
    /\ Team = <<OldTeam>>

\* C5: of two refreshes of a kind in a row that called the same endpoints and
\* got the same answers, on a store that does not fail, the second leaves in
\* the collection the same records (their fields, not the ids the store
\* gives) as the first, whatever the collection held before the first.
C5_Idempotent ==
  \A k \in Kinds :
    (Len(hist[k]) = 2 /\ hist[k][1].clean /\ hist[k][2].clean
       /\ hist[k][1].calls = hist[k][2].calls) =>
      hist[k][1].after = hist[k][2].after

\* two refreshes that both wrote the records the provider listed
C5_Witness ==
  \E k \in Kinds :
    /\ Len(hist[k]) = 2 /\ hist[k][1].clean /\ hist[k][2].clean
    /\ hist[k][1].calls = hist[k][2].calls
    /\ hist[k][2].after # <<>>
    /\ \E r \in Slots : Answered(r, k) /\ req[r].res.status = 200
                          /\ req[r].snap # <<>>

\* the dates today can be
Today == {now.date : now \in Instants}

\* C6: the refresh of the games calls '/games', then '/schedule', then
\* '/games?date=<today>', each at most once, an endpoint only after every
\* earlier one has failed and none after the first success; when the three
\* fail it answers 404 endpoint-not-found, with the last error's text, having
\* cleared and inserted nothing.
C6_GamesFallbackChain ==
  \A r \in Slots :
    req[r].kind = "games" =>
      LET q == req[r]
          n == Len(q.calls)
      IN /\ n <= 3
         /\ n >= 1 => q.calls[1].endpoint = "/games"
         /\ n >= 2 => q.calls[2].endpoint = "/schedule"
         /\ n >= 3 => q.calls[3].endpoint \in {"/games?date=" \o d : d \in Today}
         /\ \A j \in 1..(n - 1) : Fails(q.calls[j].raw)
         /\ (q.pc = "fetch" /\ n >= 1) => Fails(q.calls[n].raw)
         /\ q.pc # "fetch" => n >= 1
         /\ (q.pc = "done" /\ Fails(q.calls[n].raw)) =>
              /\ n = 3
              /\ q.res = Json(404,
                   [success |-> FALSE,
                    message |-> "Games endpoint not found. Check API documentation.",
                    error |-> ErrorText(q.calls[3].raw)])
              /\ q.wrote = <<>>
              /\ Game = q.snap

\* the three endpoints failed, over a collection that held a record
C6_Witness ==
  \E r \in Slots :
    /\ Answered(r, "games") /\ Len(req[r].calls) = 3
    /\ Fails(req[r].calls[3].raw)
    /\ req[r].res.status = 404
    /\ Game = <<OldGame>>

ListRoutes ==
  {"GET /api/players", "GET /api/players/search/:name", "GET /api/players/top/10",
   "GET /api/teams", "GET /api/teams/random/10",
   "GET /api/games", "GET /api/games/latest", "GET /api/games/date/:date"}
ByIdRoutes == {"GET /api/players/:id", "GET /api/teams/:id"}
EndpointNotFoundMessages ==
  {"Players endpoint not found. Check API documentation.",
   "Games endpoint not found. Check API documentation."}

C8_GetById ==
  (resp.route \in ByIdRoutes
     /\ ~(resp.status = 500 /\ resp.body.error = "StoreError")) =>
    LET c == IF resp.route = "GET /api/players/:id" THEN Player ELSE Team
        m == SelectSeq(c, LAMBDA d : d._id = resp.param)
    IN IF m # <<>>
         THEN resp.status = 200 /\ resp.body.success = TRUE /\ resp.body.data = m[1]
         ELSE resp.status = 404 /\ resp.body.success = FALSE

\* C9: from an empty Player collection, whatever refreshes of the players run,
\* one after the other or at the same time, and whatever the provider lists,
\* every Player record has points, assists and rebounds 0.
C9_ZeroStats ==
  \A j \in DOMAIN Player :
    Player[j].points = 0 /\ Player[j].assists = 0 /\ Player[j].rebounds = 0

\* two refreshes overlapped and the collection holds a player the provider
\* listed with 30 points
C9_Witness ==
  /\ \E j \in DOMAIN Player : Player[j].apiPlayerId = UpPlayerA.id
  /\ UpPlayerA.points > 0
  /\ \E r \in Slots : req[r].pc = "done" /\ req[r].overlap

\* the list route of a kind of record
ListRouteOf(k) ==
  CASE k = "teams" -> "GET /api/teams"
    [] k = "players" -> "GET /api/players"
    [] k = "games" -> "GET /api/games"

\* C10: while a refresh run alone is between its clear and its insert step,
\* its collection is empty and a reader of the list route is answered with
\* count 0 and no record, whatever the collection held before; once the
\* refresh has inserted and answered, the collection is not empty.
C10_EmptyBetweenClearAndInsert ==
  \A r \in Slots :
    /\ req[r].pc = "insert" =>
         /\ Coll(req[r].kind) = <<>>
         /\ (resp.route = ListRouteOf(req[r].kind) /\ resp.status = 200) =>
              resp.body.count = 0 /\ resp.body.data = <<>>
    /\ (req[r].pc = "done" /\ req[r].res.status = 200 /\ ~req[r].threw
          /\ req[r].wrote = <<"deleteMany", "insertMany">>) =>
         Coll(req[r].kind) # <<>>

\* a reader of the teams is answered with none, between the clear and the
\* insert of a refresh that found a team in the collection and has teams to
\* insert
C10_Witness ==
  \E r \in Slots :
    /\ req[r].pc = "insert" /\ req[r].kind = "teams"
    /\ req[r].snap # <<>> /\ req[r].docs # <<>>
    /\ resp.route = "GET /api/teams" /\ resp.status = 200
    /\ resp.body.count = 0

\* two refreshes of the teams, of which the second started while the first
\* was in flight, have both answered with success
BothRefreshed(r, s) ==
  /\ r # s
  /\ Answered(r, "teams") /\ req[r].res.status = 200
  /\ Answered(s, "teams") /\ req[s].res.status = 200
  /\ req[r].overlap /\ req[s].overlap

\* C11: two refreshes of the teams that overlap are not kept apart.  When both
\* have answered with success, either one of them cleared after the other had
\* inserted, and the collection holds the teams of one of them only; or both
\* cleared before either inserted, and the collection holds the teams of the
\* one followed by the teams of the other, a team both were returned twice.
C11_RaceOutcomes ==
  \A r, s \in Slots :
    BothRefreshed(r, s) =>
      LET dr == ReturnedTeams(req[r].calls)
          ds == ReturnedTeams(req[s].calls)
      IN \/ /\ req[r].found = <<>> /\ req[s].found = <<>>
            /\ Normalized(Team) \in {dr, ds}
         \/ /\ req[r].found = <<>> /\ Normalized(req[s].found) = dr
            /\ Normalized(Team) = dr \o ds
         \/ /\ req[s].found = <<>> /\ Normalized(req[r].found) = ds
            /\ Normalized(Team) = ds \o dr

\* both answered with success and the collection holds a team twice: it is
\* the result of neither of them run alone
C11_Witness ==
  \E r, s \in Slots :
    /\ BothRefreshed(r, s)
    /\ \E i, j \in DOMAIN Team : i # j /\ Team[i].apiTeamId = Team[j].apiTeamId
    /\ Normalized(Team) \notin {ReturnedTeams(req[r].calls), ReturnedTeams(req[s].calls)}

\* both answered with success and a team one of them was returned is not in
\* the collection
C11_WitnessDropped ==
  \E r, s \in Slots :
    /\ BothRefreshed(r, s)
    /\ \E t \in Range(ReturnedTeams(req[r].calls)) : t \notin Range(Normalized(Team))

\* the order in which the divisions are to be called
DivisionOrder ==
  <<"Atlantic", "Central", "Southeast", "Northwest", "Pacific", "Southwest">>

\* C12: a refresh of the teams calls the divisions one at a time in the order
\* Atlantic, Central, Southeast, Northwest, Pacific, Southwest, goes on to
\* its check of the teams only when the six have been called, and issues a
\* call after the first only when the 500ms delay has elapsed since the call
\* before it, whether that call succeeded or failed.
C12_PacedDivisions ==
  \A r \in Slots :
    req[r].kind = "teams" =>
      LET q == req[r]
          n == Len(q.calls)
      IN /\ n <= 6
         /\ \A j \in 1..n : EndpointDivision(q.calls[j].endpoint) = DivisionOrder[j]
         /\ q.pc \in {"fetch", "delay"} => n = IF q.pc = "fetch" THEN q.i - 1 ELSE q.i
         /\ q.pc \notin {"fetch", "delay"} => n = 6
         /\ (q.pc = "fetch" /\ n >= 1) => q.waited

\* the routes that only read
ReadRoutes == ListRoutes \cup ByIdRoutes \cup {"GET /api/admin/test-api/:endpoint"}

\* C13: a step changes a collection only when it is the clear or the insert
\* step of a refresh of that collection's kind: a refresh of one kind,
\* whatever its outcome, leaves the other two collections as they are, and no
\* read route and no test-api call changes any collection.
C13_Independent ==
  [][ /\ \A k \in Kinds :
           Coll(k)' # Coll(k) =>
             \E r \in Slots : /\ req[r].kind = k
                              /\ req[r].pc \in {"clear", "insert"}
                              /\ req'[r] # req[r]
      /\ resp'.route \in ReadRoutes => UNCHANGED <<Team, Player, Game>>
    ]_vars

\* a refresh of the teams has replaced the teams, the players and the games
\* are the ones found before, and test-api has been called since
C13_Witness ==
  /\ \E r \in Slots : /\ Answered(r, "teams") /\ req[r].res.status = 200
                      /\ req[r].snap = <<OldTeam>> /\ Team # <<OldTeam>>
  /\ Player = <<OldPlayer>> /\ Game = <<OldGame>>
  /\ resp.route = "GET /api/admin/test-api/:endpoint"

====
